---- MODULE Spec2Model ----
(***************************************************************************)
(* Model of plugins/modules/nd_federation_member.py (cisco.nd collection). *)
(* One call of main() is a sequential process whose position is pc; the    *)
(* remote Nexus Dashboard holds the federation and member collections.     *)
(* Every remote call (nd.query_obj, nd.request) is one step; a Write may   *)
(* be rejected by the remote system, which ends the call (fail_json).      *)
(***************************************************************************)
EXTENDS Integers, Sequences, FiniteSets, TLC

(* ---------------------------------------------------------------- bounds *)
MaxMembers == 3      \* longest member collection of an initial remote state
MaxClusters == 2     \* longest 'clusters' list of a request
MaxRuns == 2         \* calls of main() in a row with the same request

(* ------------------------------------------------------------- the data *)
Local == "local"     \* name of the local cluster (clusters[0].spec.name)
Other == "other"     \* name of a federation owned by another cluster
NoHost == "none"     \* a clusters entry without cluster_hostname

MemberHosts == {Local, "A", "B", "C"}
UserHosts == {Local, "A", "B"}

\* entries of the 'clusters' option: cluster_hostname and whether both
\* cluster_username and cluster_password are given
ClusterEntries ==
    [cluster_hostname : UserHosts, has_credentials : {TRUE}]
      \cup {[cluster_hostname |-> NoHost, has_credentials |-> TRUE],
            [cluster_hostname |-> "A", has_credentials |-> FALSE]}

States == {"present", "absent", "query"}

RECURSIVE SeqsUpTo(_, _)
SeqsUpTo(S, n) ==
    IF n = 0 THEN {<<>>}
    ELSE LET shorter == SeqsUpTo(S, n - 1)
         IN shorter \cup {Append(s, x) : s \in {t \in shorter : Len(t) = n - 1}, x \in S}

Range(s) == {s[k] : k \in 1..Len(s)}

Distinct(s) == \A a, b \in 1..Len(s) : s[a] = s[b] => a = b

\* member collections of the remote system: distinct hosts, memberID by position
InitialMembers ==
    {[k \in 1..Len(hs) |-> [host |-> hs[k], memberID |-> k]] :
        hs \in {s \in SeqsUpTo(MemberHosts, MaxMembers) : Distinct(s)}}

InitialFederations == {{}, {Local}, {Other}}

Hosts(ms) == {ms[k].host : k \in 1..Len(ms)}

EmptyPayload == [DELETE |-> <<>>, POST |-> <<>>]

\* nd.existing / nd.previous: {} , one member dict, the member list, or the payload dict
NoObject == [kind |-> "empty", items |-> <<>>]

VARIABLES
    federations,            \* remote: names of the federations in the federation collection
    members,                \* remote: the member collection, in order
    nextId,                 \* remote: next memberID to hand out
    state, check_mode,      \* request: params 'state' and module.check_mode
    has_clusters, clusters, \* request: param 'clusters' (given or not, the list)
    pc,                     \* position in main()
    federation_obj,         \* main(): federation_obj
    federation_member_obj,  \* main(): federation_member_obj
    existing, previous,     \* nd.existing, nd.previous
    proposed,               \* nd.proposed
    remove_member_list, add_member_list, payload_dict,
    i,                      \* index of the running for loop
    log,                    \* Writes issued by this call, in order
    reads,                  \* number of remote reads of this call
    result,                 \* outcome of the call
    run,                    \* number of the call
    prev_result,            \* outcome of the previous call
    members0, federations0, \* remote state when the call started
    remaining               \* absent: member count once the removals are over (-1: not yet)

vars == <<federations, members, nextId, state, check_mode, has_clusters, clusters, pc,
          federation_obj, federation_member_obj, existing, previous, proposed,
          remove_member_list, add_member_list, payload_dict, i, log, reads, result,
          run, prev_result, members0, federations0, remaining>>

remote == <<federations, members, nextId>>
request == <<state, check_mode, has_clusters, clusters>>
history == <<run, prev_result, members0, federations0>>
locals == <<existing, previous, proposed, payload_dict, i>>
plan == <<remove_member_list, add_member_list>>
observed == <<federation_obj, federation_member_obj>>

Init ==
    /\ federations \in InitialFederations
    /\ members \in InitialMembers
    /\ (federations = {} => members = <<>>)   \* no member without a federation
    /\ nextId = Len(members) + 1
    /\ state \in States
    /\ check_mode \in BOOLEAN
    /\ has_clusters \in BOOLEAN
    /\ clusters \in SeqsUpTo(ClusterEntries, MaxClusters)
    /\ (~has_clusters => clusters = <<>>)
    /\ pc = "validate"
    /\ federation_obj = {}
    /\ federation_member_obj = <<>>
    /\ existing = NoObject
    /\ previous = NoObject
    /\ proposed = EmptyPayload
    /\ remove_member_list = <<>>
    /\ add_member_list = <<>>
    /\ payload_dict = EmptyPayload
    /\ i = 1
    /\ log = <<>>
    /\ reads = 0
    /\ result = "running"
    /\ run = 1
    /\ prev_result = "none"
    /\ members0 = members
    /\ federations0 = federations
    /\ remaining = -1

(* --------------------------------------------------- parameter validation *)
\* AnsibleModule(required_if=[["state", "present", ["clusters"]]])
RequiredIfFails(st, given) == st = "present" /\ ~given

\* variant: state present asks for the hostname only
ClusterInvalid_HostOnly(st, cluster) ==
    IF st \in {"query", "present"} THEN cluster.cluster_hostname = NoHost ELSE FALSE

\* the "validate parameters" loop
ClusterInvalid(st, cluster) ==
    IF st = "query" THEN cluster.cluster_hostname = NoHost
    ELSE IF st = "present"
         THEN ~(cluster.cluster_hostname # NoHost /\ cluster.has_credentials)
         ELSE FALSE

ValidationFails(st, given, cs) ==
    \/ RequiredIfFails(st, given)
    \/ \E k \in 1..Len(cs) : ClusterInvalid(st, cs[k])

Fail(msg) ==
    /\ result' = msg
    /\ pc' = "done"

Validate ==
    /\ pc = "validate"
    /\ IF ValidationFails(state, has_clusters, clusters)
       THEN Fail("validation_error")
       ELSE pc' = "observe_federation" /\ UNCHANGED result
    /\ UNCHANGED <<remote, request, observed, locals, plan, log, reads, history, remaining>>

(* ------------------------------------------------------------ observation *)
\* next(federation_dict ... if spec.name == local_cluster_name, None) is not None
FederationInfo(fobj) == Local \in fobj

\* variant: the primary check without the exemption of state "query"
NotPrimaryFails_QueryToo(fobj, st) == fobj # {} /\ ~FederationInfo(fobj)

NotPrimaryFails(fobj, st) == fobj # {} /\ ~FederationInfo(fobj) /\ st # "query"

\* GET local cluster name, GET federation, the primary check
ObserveFederation ==
    /\ pc = "observe_federation"
    /\ federation_obj' = federations
    /\ reads' = reads + 2
    /\ IF NotPrimaryFails(federations, state)
       THEN Fail("not_primary")
       ELSE pc' = "observe_members" /\ UNCHANGED result
    /\ UNCHANGED <<remote, request, federation_member_obj, locals, plan, log, history,
                   remaining>>

\* next(cluster_dict ... if spec.host == cluster_hostname, None), as a list of 0 or 1 entries
ClusterInfo(ms, hostname) ==
    LET hits == SelectSeq(ms, LAMBDA m : m.host = hostname)
    IN IF hits = <<>> THEN <<>> ELSE <<hits[1]>>

\* for cluster in clusters: ... if cluster_info: nd.existing = cluster_info
RECURSIVE QuerySpecific(_, _, _, _)
QuerySpecific(k, cur, ms, cs) ==
    IF k > Len(cs) THEN cur
    ELSE LET cluster_info == ClusterInfo(ms, cs[k].cluster_hostname)
         IN QuerySpecific(k + 1,
                          IF cluster_info # <<>>
                          THEN [kind |-> "dict", items |-> cluster_info]
                          ELSE cur,
                          ms, cs)

\* the "Query specific member" block: the value of nd.existing
Existing(st, cs, ms) ==
    IF cs # <<>> /\ st = "query"
    THEN IF ms # <<>> THEN QuerySpecific(1, NoObject, ms, cs) ELSE NoObject
    ELSE [kind |-> "list", items |-> ms]

\* variant: state query falls into the branch of state absent
Dispatch_QueryAsAbsent(st) == IF st = "query" THEN "absent" ELSE st

\* if state == "query": ... elif state == "absent": ... elif state == "present": ...
Dispatch(st) == st

\* GET federation members, nd.existing, nd.previous
ObserveMembers ==
    /\ pc = "observe_members"
    /\ federation_member_obj' = members
    /\ reads' = reads + 1
    /\ existing' = Existing(state, clusters, members)
    /\ previous' = existing'
    /\ pc' = Dispatch(state)
    /\ UNCHANGED <<remote, request, federation_obj, proposed, payload_dict, i, plan, log,
                   result, history, remaining>>

\* if state == "query": nd.exit_json()
Query ==
    /\ pc = "query"
    /\ result' = "ok"
    /\ pc' = "done"
    /\ UNCHANGED <<remote, request, observed, locals, plan, log, reads, history, remaining>>

(* -------------------------------------------------------- the remote system *)
Write(method, path, host, id) == [method |-> method, path |-> path, host |-> host, id |-> id]

DeleteMemberCall(m) == Write("DELETE", "members", m.host, m.memberID)
PostMemberCall(host) == Write("POST", "members", host, 0)
PostFederationCall == Write("POST", "federations", Local, 0)
DeleteFederationCall == Write("DELETE", "federations", Local, 0)

\* DELETE members/<memberID>
RemoteDeleteMember(ms, id) == SelectSeq(ms, LAMBDA m : m.memberID # id)

\* POST members: a new entry with a fresh memberID
RemotePostMember(ms, host, id) ==
    IF host \in Hosts(ms) THEN ms ELSE Append(ms, [host |-> host, memberID |-> id])

\* a Write is accepted or rejected by the remote system
Outcomes == BOOLEAN

\* nd.request(path, method): the call is logged; the remote system takes effect only when
\* it accepts, and a rejected call ends main() with fail_json
Issue(call, ok, pcOk) ==
    /\ log' = Append(log, call)
    /\ IF ok THEN pc' = pcOk /\ UNCHANGED result
             ELSE Fail("request_error")

(* ------------------------------------------------------------ state: absent *)
\* elif state == "absent": if nd.existing: if not module.check_mode: ...
Absent ==
    /\ pc = "absent"
    /\ IF existing.items = <<>>
       THEN /\ result' = "ok" /\ pc' = "done"
            /\ remaining' = Len(members)
            /\ UNCHANGED <<existing, i>>
       ELSE IF check_mode
            THEN /\ existing' = NoObject
                 /\ result' = "ok" /\ pc' = "done"
                 /\ UNCHANGED <<i, remaining>>
            ELSE /\ pc' = "absent_remove"
                 /\ i' = 1
                 /\ UNCHANGED <<existing, result, remaining>>
    /\ UNCHANGED <<remote, request, observed, previous, proposed, payload_dict, plan, log,
                   reads, history>>

\* variant: only the members the caller listed are removed
AbsentRemoves_OnlyListed(member_host) ==
    /\ member_host.host # Local
    /\ \E k \in 1..Len(clusters) : clusters[k].cluster_hostname = member_host.host

\* variant: the entry of the local cluster is removed like the others
AbsentRemoves_All(member_host) == TRUE

\* if not member_host.get("spec").get("host") == local_cluster_name
AbsentRemoves(member_host) == member_host.host # Local

\* for member_host in federation_member_obj: ... nd.request(cluster_member_path, "DELETE")
AbsentRemove ==
    /\ pc = "absent_remove"
    /\ IF i > Len(federation_member_obj)
       THEN /\ pc' = "absent_recheck"
            /\ UNCHANGED <<remote, i, log, result>>
       ELSE LET member_host == federation_member_obj[i]
            IN IF AbsentRemoves(member_host)
               THEN \E ok \in Outcomes :
                      /\ Issue(DeleteMemberCall(member_host), ok, "absent_remove")
                      /\ members' = IF ok THEN RemoteDeleteMember(members, member_host.memberID)
                                          ELSE members
                      /\ i' = i + 1
                      /\ UNCHANGED <<federations, nextId>>
               ELSE /\ i' = i + 1
                    /\ UNCHANGED <<remote, pc, log, result>>
    /\ UNCHANGED <<request, observed, existing, previous, proposed, payload_dict, plan,
                   reads, history, remaining>>

\* variant: the federation is never taken for empty
FederationIsEmpty_Never(count) == FALSE

\* if len(nd.query_obj(member_path).get("items")) == 1
FederationIsEmpty(count) == count = 1

\* the re-read of the member collection and the choice to remove the federation
AbsentRecheck ==
    /\ pc = "absent_recheck"
    /\ reads' = reads + 1
    /\ remaining' = Len(members)
    /\ IF FederationIsEmpty(Len(members)) /\ FederationInfo(federation_obj)
       THEN /\ pc' = "absent_delete_federation"
            /\ UNCHANGED <<existing, result>>
       ELSE /\ existing' = NoObject
            /\ result' = "ok" /\ pc' = "done"
    /\ UNCHANGED <<remote, request, observed, previous, proposed, payload_dict, i, plan,
                   log, history>>

\* DELETE federations/<federationID>: the members go with the federation
RemoteDeleteFederation(ms) == <<>>

\* nd.request(federation_path/<federationID>, method="DELETE"); nd.existing = {}
AbsentDeleteFederation ==
    /\ pc = "absent_delete_federation"
    /\ \E ok \in Outcomes :
         /\ log' = Append(log, DeleteFederationCall)
         /\ pc' = "done"
         /\ IF ok
            THEN /\ federations' = federations \ {Local}
                 /\ members' = RemoteDeleteFederation(members)
                 /\ existing' = NoObject
                 /\ result' = "ok"
            ELSE /\ result' = "request_error"
                 /\ UNCHANGED <<federations, members, existing>>
    /\ UNCHANGED <<nextId, request, observed, previous, proposed, payload_dict, i, plan,
                   reads, history, remaining>>

(* ----------------------------------------------------------- state: present *)
\* variant: the shortcut taken only for an empty member list
BootstrapShortcut_EmptyOnly(ms) == Len(ms) < 1

\* if len(federation_member_obj) <= 1: add_member_list = clusters
BootstrapShortcut(ms) == Len(ms) <= 1

\* the inner loop over clusters: some user_member_host has this host
SpecifiedByUser(member, cs) == \E k \in 1..Len(cs) : cs[k].cluster_hostname = member.host

\* "Remove exisiting members not specified by the users": member_exists is set to False
\* once, before the loop over federation_member_obj, and carried from entry to entry
RECURSIVE RemoveScan(_, _, _, _)
RemoveScan(k, member_exists, ms, cs) ==
    IF k > Len(ms) THEN <<>>
    ELSE IF ms[k].host = Local
         THEN RemoveScan(k + 1, member_exists, ms, cs)
         ELSE LET exists == member_exists \/ SpecifiedByUser(ms[k], cs)
              IN (IF exists THEN <<>> ELSE <<ms[k]>>) \o RemoveScan(k + 1, exists, ms, cs)

RemoveMemberList(ms, cs) ==
    IF BootstrapShortcut(ms) THEN <<>> ELSE RemoveScan(1, FALSE, ms, cs)

\* variant: every listed cluster is added, observed or not
AddMemberList_NoCompare(ms, cs) == cs

\* "Add members specified by the users": the clusters with no observed entry of that host
AddMemberList(ms, cs) ==
    IF BootstrapShortcut(ms) THEN cs
    ELSE SelectSeq(cs, LAMBDA c : \A k \in 1..Len(ms) : ms[k].host # c.cluster_hostname)

\* variant: the addition block placed before the removal block
PhaseOrder_AddFirst == <<"present_add", "present_remove">>

\* the order of the two blocks under "if add_member_list or remove_member_list"
PhaseOrder == <<"present_remove", "present_add">>

PhaseIndex(phase) == CHOOSE k \in 1..Len(PhaseOrder) : PhaseOrder[k] = phase

\* the first block from the k-th on whose list is not empty
RECURSIVE PhaseFrom(_, _, _)
PhaseFrom(k, rm, add) ==
    IF k > Len(PhaseOrder) THEN "present_finish"
    ELSE IF \/ PhaseOrder[k] = "present_remove" /\ rm # <<>>
            \/ PhaseOrder[k] = "present_add" /\ add # <<>>
         THEN PhaseOrder[k]
         ELSE PhaseFrom(k + 1, rm, add)

\* elif state == "present": the two lists, then "if add_member_list or remove_member_list"
PresentPlan ==
    /\ pc = "present"
    /\ remove_member_list' = RemoveMemberList(federation_member_obj, clusters)
    /\ add_member_list' = AddMemberList(federation_member_obj, clusters)
    /\ payload_dict' = EmptyPayload
    /\ i' = 1
    /\ IF add_member_list' # <<>> \/ remove_member_list' # <<>>
       THEN /\ pc' = PhaseFrom(1, remove_member_list', add_member_list')
            /\ UNCHANGED result
       ELSE /\ result' = "ok" /\ pc' = "done"
    /\ UNCHANGED <<remote, request, observed, existing, previous, proposed, log, reads,
                   history, remaining>>

\* try: payload_dict["DELETE"].append(cluster_member_path) except: ... = [cluster_member_path]
RecordDelete(pd, member) == [pd EXCEPT !.DELETE = Append(@, member.memberID)]

\* variant: the payload is recorded only when the POST is sent
RecordPost_RealOnly(pd, member) ==
    IF check_mode THEN pd ELSE [pd EXCEPT !.POST = Append(@, member.cluster_hostname)]

\* try: payload_dict["POST"].append(payload) except: payload_dict["POST"] = [payload]
RecordPost(pd, member) == [pd EXCEPT !.POST = Append(@, member.cluster_hostname)]

\* the loop position after one entry of a block's list is done
Advance(phase, list) ==
    IF i < Len(list)
    THEN i' = i + 1 /\ pc' = phase
    ELSE i' = 1 /\ pc' = PhaseFrom(PhaseIndex(phase) + 1, remove_member_list, add_member_list)

\* for member in remove_member_list: nd.request(cluster_member_path, method="DELETE");
\* the call is under no check_mode test
PresentRemove ==
    /\ pc = "present_remove"
    /\ LET member == remove_member_list[i]
       IN \E ok \in Outcomes :
            /\ log' = Append(log, DeleteMemberCall(member))
            /\ IF ok
               THEN /\ members' = RemoteDeleteMember(members, member.memberID)
                    /\ payload_dict' = RecordDelete(payload_dict, member)
                    /\ Advance("present_remove", remove_member_list)
                    /\ UNCHANGED result
               ELSE /\ Fail("request_error")
                    /\ UNCHANGED <<members, payload_dict, i>>
    /\ UNCHANGED <<federations, nextId, request, observed, existing, previous, proposed,
                   plan, reads, history, remaining>>

\* variant: the federation is posted whether or not one was observed
CreatesFederation_Always(fobj) == TRUE

\* if not federation_obj: the federation is created before the member is posted
CreatesFederation(fobj) == fobj = {}

\* for member in add_member_list: the payload is built and recorded; if not check_mode ...
PresentAdd ==
    /\ pc = "present_add"
    /\ payload_dict' = RecordPost(payload_dict, add_member_list[i])
    /\ IF check_mode
       THEN Advance("present_add", add_member_list)
       ELSE /\ pc' = IF CreatesFederation(federation_obj)
                     THEN "present_create_federation"
                     ELSE "present_post_member"
            /\ UNCHANGED i
    /\ UNCHANGED <<remote, request, observed, existing, previous, proposed, plan, log,
                   reads, result, history, remaining>>

\* POST federations {"spec": {"name": local_cluster_name}}: the federation then exists
\* and has the local cluster as a member
RemotePostFederation(ms, id) == RemotePostMember(ms, Local, id)

\* nd.request(federation_path, method="POST", data={"spec": {"name": local_cluster_name}})
PresentCreateFederation ==
    /\ pc = "present_create_federation"
    /\ \E ok \in Outcomes :
         /\ Issue(PostFederationCall, ok, "present_post_member")
         /\ IF ok
            THEN /\ federations' = federations \cup {Local}
                 /\ members' = RemotePostFederation(members, nextId)
                 /\ nextId' = IF members' = members THEN nextId ELSE nextId + 1
            ELSE UNCHANGED remote
    /\ UNCHANGED <<request, observed, locals, plan, reads, history, remaining>>

\* nd.request(member_path, method="POST", data=payload)
PresentPostMember ==
    /\ pc = "present_post_member"
    /\ \E ok \in Outcomes :
         /\ log' = Append(log, PostMemberCall(add_member_list[i].cluster_hostname))
         /\ IF ok
            THEN /\ members' = RemotePostMember(members, add_member_list[i].cluster_hostname,
                                                nextId)
                 /\ nextId' = IF members' = members THEN nextId ELSE nextId + 1
                 /\ Advance("present_add", add_member_list)
                 /\ UNCHANGED result
            ELSE /\ Fail("request_error")
                 /\ UNCHANGED <<members, nextId, i>>
    /\ UNCHANGED <<federations, request, observed, existing, previous, proposed,
                   payload_dict, plan, reads, history, remaining>>

\* if not check_mode: nd.existing = the re-read members, nd.proposed = payload_dict
\* else: nd.existing = nd.proposed = payload_dict
PresentFinish ==
    /\ pc = "present_finish"
    /\ proposed' = payload_dict
    /\ IF ~check_mode
       THEN /\ existing' = [kind |-> "list", items |-> members]
            /\ reads' = reads + 1
       ELSE /\ existing' = [kind |-> "payload", items |-> <<>>]
            /\ UNCHANGED reads
    /\ result' = "ok"
    /\ pc' = "done"
    /\ UNCHANGED <<remote, request, observed, previous, payload_dict, i, plan, log,
                   history, remaining>>

(* ------------------------------------------------------------ the next call *)
\* the playbook task is run again with the same parameters
Retry ==
    /\ pc = "done"
    /\ run < MaxRuns
    /\ run' = run + 1
    /\ prev_result' = result
    /\ members0' = members
    /\ federations0' = federations
    /\ pc' = "validate"
    /\ federation_obj' = {}
    /\ federation_member_obj' = <<>>
    /\ existing' = NoObject
    /\ previous' = NoObject
    /\ proposed' = EmptyPayload
    /\ remove_member_list' = <<>>
    /\ add_member_list' = <<>>
    /\ payload_dict' = EmptyPayload
    /\ i' = 1
    /\ log' = <<>>
    /\ reads' = 0
    /\ result' = "running"
    /\ remaining' = -1
    /\ UNCHANGED <<remote, request>>

Next ==
    \/ Validate
    \/ ObserveFederation
    \/ ObserveMembers
    \/ Query
    \/ Absent
    \/ AbsentRemove
    \/ AbsentRecheck
    \/ AbsentDeleteFederation
    \/ PresentPlan
    \/ PresentRemove
    \/ PresentAdd
    \/ PresentCreateFederation
    \/ PresentPostMember
    \/ PresentFinish
    \/ Retry

Spec == Init /\ [][Next]_vars

(* ================================================================ properties *)
IsDeleteMember(w) == w.method = "DELETE" /\ w.path = "members"
IsPostMember(w) == w.method = "POST" /\ w.path = "members"
IsPostFederation(w) == w.method = "POST" /\ w.path = "federations"
IsDeleteFederation(w) == w.method = "DELETE" /\ w.path = "federations"

Issued(Test(_)) == \E k \in 1..Len(log) : Test(log[k])

\* the addresses the caller listed
DesiredHosts == {clusters[k].cluster_hostname : k \in 1..Len(clusters)}

Finished == pc = "done"
Succeeded == pc = "done" /\ result = "ok"

\* a present call that has computed its two lists
Planned ==
    /\ state = "present"
    /\ \/ pc \in {"present_remove", "present_add", "present_create_federation",
                  "present_post_member", "present_finish"}
       \/ pc = "done" /\ result \in {"ok", "request_error"}

\* C1: a present call that ends well with 2 or more observed members has issued a
\* DELETE for every observed member that is neither the local cluster nor desired
C1_RemovesEveryUndesired ==
    (Succeeded /\ state = "present" /\ Len(federation_member_obj) >= 2)
      => \A k \in 1..Len(federation_member_obj) :
           LET m == federation_member_obj[k]
           IN (m.host # Local /\ m.host \notin DesiredHosts)
                => DeleteMemberCall(m) \in Range(log)

\* C2: under check mode no Write is issued and the remote state stays as it was
C2_DryRunIssuesNoWrite ==
    check_mode => /\ log = <<>>
                  /\ members = members0
                  /\ federations = federations0

\* C3: after a successful real present call by the primary of an existing federation
\* the remote member addresses are the desired ones plus the local cluster
C3_Converges ==
    (/\ Succeeded /\ state = "present" /\ ~check_mode
     /\ Local \in federation_obj /\ Local \in Hosts(federation_member_obj))
      => Hosts(members) = DesiredHosts \cup {Local}

\* C4: a present call that follows a successful real present call with the same
\* clusters schedules nothing and issues no Write
C4_SecondCallIsEmpty ==
    (run > 1 /\ prev_result = "ok" /\ state = "present" /\ ~check_mode)
      => /\ log = <<>>
         /\ remove_member_list = <<>>
         /\ add_member_list = <<>>

\* C5: when a federation exists and none is named after the local cluster, no Write is
\* ever issued, a present or absent call with valid parameters ends with the
\* not-primary error and a query call with valid parameters ends well
C5_PrimaryGate ==
    (federations0 # {} /\ Local \notin federations0)
      => /\ log = <<>>
         /\ members = members0 /\ federations = federations0
         /\ (Finished /\ ~ValidationFails(state, has_clusters, clusters))
              => result = IF state = "query" THEN "ok" ELSE "not_primary"

C5_Witness ==
    /\ Finished /\ state = "absent" /\ ~check_mode /\ result = "not_primary"
    /\ federations0 = {Other}
    /\ \E k \in 1..Len(members0) : members0[k].host # Local

C7_DeleteFederationIff ==
    (Succeeded /\ state = "absent" /\ ~check_mode /\ Local \in federation_obj)
      => (Issued(IsDeleteFederation) <=> remaining <= 1)

\* C8: within one call no member DELETE is issued after a member POST
C8_RemovalsBeforeAdditions ==
    \A a, b \in 1..Len(log) :
        (IsPostMember(log[a]) /\ IsDeleteMember(log[b])) => b < a

C8_Witness ==
    /\ Succeeded /\ state = "present"
    /\ Issued(IsDeleteMember) /\ Issued(IsPostMember)

\* C9: a present call that observed 0 or 1 members schedules every listed cluster as
\* an addition and no removal, issues no DELETE, and when it is real and ends well
\* has posted every listed cluster
C9_BootstrapShortcut ==
    (Planned /\ Len(federation_member_obj) <= 1)
      => /\ add_member_list = clusters
         /\ remove_member_list = <<>>
         /\ ~Issued(IsDeleteMember)
         /\ (Succeeded /\ ~check_mode)
              => \A h \in DesiredHosts : PostMemberCall(h) \in Range(log)

C9_Witness ==
    /\ Succeeded /\ state = "present" /\ ~check_mode
    /\ Len(federation_member_obj) = 1
    /\ federation_member_obj[1].host \in DesiredHosts
    /\ PostMemberCall(federation_member_obj[1].host) \in Range(log)

\* C10: a query call returns every observed member whose address was requested, and
\* the whole observed list when no address was requested
C10_QueryReturnsAllMatches ==
    (Succeeded /\ state = "query")
      => IF clusters = <<>>
         THEN existing.items = federation_member_obj
         ELSE Range(existing.items) =
                {m \in Range(federation_member_obj) : m.host \in DesiredHosts}

C12_ValidationFirst ==
    (\/ state = "present" /\ \E k \in 1..Len(clusters) :
            clusters[k].cluster_hostname = NoHost \/ ~clusters[k].has_credentials
     \/ state = "query" /\ \E k \in 1..Len(clusters) : clusters[k].cluster_hostname = NoHost)
      => /\ reads = 0
         /\ log = <<>>
         /\ members = members0 /\ federations = federations0
         /\ Finished => result = "validation_error"

C12_Witness ==
    /\ Finished /\ result = "validation_error" /\ state = "present"
    /\ \E k \in 1..Len(clusters) :
         clusters[k].cluster_hostname # NoHost /\ ~clusters[k].has_credentials
    /\ Len(members) >= 2

\* the memberIDs of the member DELETEs and the hosts of the member POSTs of the log
DeletedIds == LET ds == SelectSeq(log, IsDeleteMember)
              IN [k \in 1..Len(ds) |-> ds[k].id]
PostedHosts == LET ps == SelectSeq(log, IsPostMember)
               IN [k \in 1..Len(ps) |-> ps[k].host]

\* C13: after a real present or absent call that ends well nd.proposed lists the
\* Writes of the call: its DELETE list is the member DELETEs, its POST list the member
\* POSTs, and no Write it has no entry for (a federation POST or DELETE) was issued
C13_ProposedIsWhatWasIssued ==
    (Succeeded /\ state \in {"present", "absent"} /\ ~check_mode)
      => /\ proposed.DELETE = DeletedIds
         /\ proposed.POST = PostedHosts
         /\ ~Issued(IsPostFederation)
         /\ ~Issued(IsDeleteFederation)

\* C14: nd.proposed of a present call that ends well is given by the clusters and the
\* observed member list alone, so it is the same under check mode and in a real run
C14_DryRunSameProposed ==
    (Succeeded /\ state = "present")
      => LET rm == RemoveMemberList(federation_member_obj, clusters)
             add == AddMemberList(federation_member_obj, clusters)
         IN /\ proposed.DELETE = [k \in 1..Len(rm) |-> rm[k].memberID]
            /\ proposed.POST = [k \in 1..Len(add) |-> add[k].cluster_hostname]

C14_Witness ==
    /\ Succeeded /\ state = "present" /\ check_mode
    /\ proposed.DELETE # <<>> /\ proposed.POST # <<>>

\* C15: one call issues at most one federation POST, and exactly one when it is a real
\* present call that ends well, observed no federation and scheduled an addition
C15_OneCreateFederation ==
    LET creates == Cardinality({k \in 1..Len(log) : IsPostFederation(log[k])})
    IN /\ creates <= 1
       /\ (/\ Succeeded /\ state = "present" /\ ~check_mode
           /\ federation_obj = {} /\ add_member_list # <<>>) => creates = 1

\* C16: in a present call that observed 2 or more members, an observed member whose
\* address the caller listed gets no DELETE and no POST and keeps its remote entry
C16_DesiredAndObservedUntouched ==
    (Planned /\ Len(federation_member_obj) >= 2)
      => \A k \in 1..Len(federation_member_obj) :
           LET m == federation_member_obj[k]
           IN m.host \in DesiredHosts
                => /\ DeleteMemberCall(m) \notin Range(log)
                   /\ PostMemberCall(m.host) \notin Range(log)
                   /\ m \in Range(members)

C16_Witness ==
    /\ Succeeded /\ state = "present" /\ ~check_mode
    /\ Len(federation_member_obj) >= 2
    /\ \E k \in 1..Len(federation_member_obj) :
         /\ federation_member_obj[k].host \in DesiredHosts \ {Local}
         /\ federation_member_obj[k] \in Range(members)
    /\ Issued(IsDeleteMember) /\ Issued(IsPostMember)

\* the member addresses once the Writes of a log are applied to a set of addresses
ApplyWrite(hs, w) ==
    IF IsDeleteMember(w) THEN hs \ {w.host}
    ELSE IF IsPostMember(w) THEN hs \cup {w.host}
    ELSE IF IsPostFederation(w) THEN hs \cup {Local}
    ELSE {}

RECURSIVE HostsAfter(_, _, _)
HostsAfter(hs, ws, n) == IF n = 0 THEN hs ELSE ApplyWrite(HostsAfter(hs, ws, n - 1), ws[n])

\* C17, first part: a present call ended by a rejected Write leaves the effects of the
\* Writes before it in the remote state
C17_NoRollback ==
    (Finished /\ state = "present" /\ result = "request_error")
      => Hosts(members) = HostsAfter(Hosts(members0), log, Len(log) - 1)

\* C17, second part: the present call that follows one ended by a rejected Write posts
\* no address that is a member already and deletes only members that are there
C17_RetryIssuesOnlyTheRest ==
    (run > 1 /\ prev_result = "request_error" /\ state = "present")
      => \A k \in 1..Len(log) :
           /\ IsPostMember(log[k]) => log[k].host \notin Hosts(members0)
           /\ IsDeleteMember(log[k])
                => \E j \in 1..Len(members0) : members0[j].memberID = log[k].id

\* C17: a rejected Write of a present call leaves the earlier Writes in effect, and the
\* next present call with the same clusters issues only what is not yet applied
C17_PartialFailureAndRetry == C17_NoRollback /\ C17_RetryIssuesOnlyTheRest

C19_LocalMemberNeverRemoved ==
    /\ \A k \in 1..Len(log) : IsDeleteMember(log[k]) => log[k].host # Local
    /\ (Local \in Hosts(members0) /\ Local \notin Hosts(members))
         => Issued(IsDeleteFederation)

C19_Witness ==
    /\ Succeeded /\ ~check_mode
    /\ Local \in Hosts(federation_member_obj) /\ Local \notin DesiredHosts
    /\ Issued(IsDeleteMember)
    /\ Local \in Hosts(members)

\* C20: a query call issues no Write, leaves the remote state as it was and, when it
\* ends well, reports nd.previous equal to nd.existing
C20_QueryIsReadOnly ==
    state = "query"
      => /\ log = <<>>
         /\ members = members0 /\ federations = federations0
         /\ Succeeded => previous = existing

C20_Witness ==
    /\ Succeeded /\ state = "query"
    /\ federations0 = {Other}
    /\ existing.kind = "dict"
    /\ Len(members) >= 2

====
